---- MODULE Spec2Model ----
(***************************************************************************)
(* Model of slide_edit.py: the script that unpacks a .pptx deck, extracts  *)
(* the text runs of every slide, asks a text-editing API for replacement   *)
(* lines, substitutes them into the slide XML with re.sub, repackages the  *)
(* deck and then replaces every picture with a generated image.            *)
(*                                                                         *)
(* A slide file is a sequence of atoms: the letters "a" and "b" (text and  *)
(* attribute characters), the tags "<a:t>" and "</a:t>" that delimit a     *)
(* text run, a picture element "pic1".."pic3" (a p:pic shape bound to an   *)
(* image part) and "<bad", an unclosed tag that makes the file malformed.  *)
(***************************************************************************)
EXTENDS Integers, Sequences, FiniteSets, TLC

VARIABLES pc, ppt_file, save_dir, new_ppt, num_slides, xml_text,
          attrs_per_slide, i, response, responses, n, subs, prs, prompt,
          shape_ix, media, pngs, final, trace

vars == <<pc, ppt_file, save_dir, new_ppt, num_slides, xml_text,
          attrs_per_slide, i, response, responses, n, subs, prs, prompt,
          shape_ix, media, pngs, final, trace>>

(* ---------------- bounds of the model ---------------- *)

MaxSlides == 2

MaxSegs == 2

MaxBlobLen == 2

(* ---------------- program constants ---------------- *)

PromptMax == 1000

Small == 256

Medium == 512

Large == 1024

(* ---------------- input alphabet ---------------- *)

Letters == {"a", "b"}

NL == "\n"

TOpen == "<a:t>"

TClose == "</a:t>"

Bad == "<bad"

PicAtoms == {"pic1", "pic2", "pic3"}

SeqsUpTo(S, k) == UNION {[1..m -> S] : m \in 0..k}

\* Pixel size (width, height) of the image embedded for each picture.
ImageSize(p) ==
    CASE p = "pic1" -> <<200, 100>>
      [] p = "pic2" -> <<512, 300>>
      [] OTHER      -> <<800, 600>>

\* The texts a run of the input deck may hold: none, one letter, or a
\* word that contains the one-letter texts.
RunTexts == {<<>>, <<"a">>, <<"b">>, <<"a", "b">>}

TextNode(t) == <<TOpen>> \o t \o <<TClose>>

\* The pieces a slide file is made of: an attribute character, a text
\* run, a picture shape, or an unclosed tag.
Segments ==
    {<<"a">>} \cup {TextNode(t) : t \in RunTexts}
              \cup {<<p>> : p \in PicAtoms} \cup {<<Bad>>}

RECURSIVE Flatten(_)
Flatten(ss) == IF ss = <<>> THEN <<>> ELSE Head(ss) \o Flatten(Tail(ss))

\* All ways to cut the segment sequence ss into k consecutive slides.
RECURSIVE Cuts(_, _)
Cuts(ss, k) ==
    IF k = 1 THEN {<<Flatten(ss)>>}
    ELSE UNION {{<<Flatten(SubSeq(ss, 1, c))>> \o r :
                    r \in Cuts(SubSeq(ss, c + 1, Len(ss)), k - 1)} :
                c \in 0..Len(ss)}

\* The decks of 1..MaxSlides slide files that hold at most MaxSegs of
\* the given segments.
DecksOver(segs) ==
    UNION {UNION {Cuts(ss, k) : ss \in SeqsUpTo(segs, MaxSegs)} :
           k \in 1..MaxSlides}

Decks == DecksOver(Segments)

\* The decks without pictures, and the well-formed ones.
TextDecks == DecksOver(Segments \ {<<p>> : p \in PicAtoms})

ImageDecks == DecksOver(Segments \ {<<Bad>>})

\* The text API's possible answers.
Blobs == SeqsUpTo(Letters \cup {NL}, MaxBlobLen)

Absent == [present |-> FALSE, slides |-> <<>>]

Dir(files) == [present |-> TRUE, slides |-> files]

(* ---------------- pure functions of the script ---------------- *)

Min(x, y) == IF x <= y THEN x ELSE y

Take(s, k) == SubSeq(s, 1, Min(k, Len(s)))

Drop(s, k) == SubSeq(s, k + 1, Len(s))

\* ET.fromstring raises ParseError on an unclosed tag.
WellFormed(content) == \A k \in 1..Len(content) : content[k] # Bad

\* Index of the first closing tag of content (0 if none).
RECURSIVE FirstClose(_, _)
FirstClose(content, k) ==
    IF k > Len(content) THEN 0
    ELSE IF content[k] = TClose THEN k
    ELSE FirstClose(content, k + 1)

\* text_parse with the runs collected in reverse document order.
RECURSIVE text_parse_rev(_)
text_parse_rev(content) ==
    IF content = <<>> THEN <<>>
    ELSE IF Head(content) = TOpen
         THEN LET e == FirstClose(content, 1)
              IN  text_parse_rev(Drop(content, e))
                  \o <<SubSeq(content, 2, e - 1)>>
         ELSE text_parse_rev(Tail(content))

\* text_parse: the .text of every a:t element, in document order.  An
\* empty element has .text None, written <<>> here (a run of the file
\* is never the empty string: ElementTree gives None for it).
RECURSIVE text_parse(_)
text_parse(content) ==
    IF content = <<>> THEN <<>>
    ELSE IF Head(content) = TOpen
         THEN LET e == FirstClose(content, 1)
              IN  <<SubSeq(content, 2, e - 1)>> \o text_parse(Drop(content, e))
         ELSE text_parse(Tail(content))

NoneText == <<>>

\* "\n".join(xml_text) raises TypeError when an item is None.
JoinFails(texts) == \E k \in 1..Len(texts) : texts[k] = NoneText

RECURSIVE Join(_)
Join(texts) ==
    IF texts = <<>> THEN <<>>
    ELSE IF Len(texts) = 1 THEN texts[1]
    ELSE texts[1] \o <<NL>> \o Join(Tail(texts))

\* str.split("\n"): the pieces between newlines; "" gives [""].
RECURSIVE SplitFrom(_, _)
SplitFrom(blob, cur) ==
    IF blob = <<>> THEN <<cur>>
    ELSE IF Head(blob) = NL THEN <<cur>> \o SplitFrom(Tail(blob), <<>>)
    ELSE SplitFrom(Tail(blob), Append(cur, Head(blob)))

Split(blob) == SplitFrom(blob, <<>>)

RECURSIVE Repeat(_, _)
Repeat(x, k) == IF k <= 0 THEN <<>> ELSE <<x>> \o Repeat(x, k - 1)

\* responses += [""] * (len(xml_text) - len(responses)) when shorter.
Pad(lines, k) ==
    IF Len(lines) < k THEN lines \o Repeat(<<>>, k - Len(lines)) ELSE lines

StartsWith(s, pat) == Len(s) >= Len(pat) /\ SubSeq(s, 1, Len(pat)) = pat

\* re.sub(pat, repl, s) with count 0 for a literal pattern: every
\* non-overlapping match, leftmost first, is replaced.  An empty pattern
\* matches before every character and at the end.
RECURSIVE ReSub(_, _, _)
ReSub(pat, repl, s) ==
    IF pat = <<>>
    THEN IF s = <<>> THEN repl
         ELSE repl \o <<Head(s)>> \o ReSub(pat, repl, Tail(s))
    ELSE IF s = <<>> THEN <<>>
    ELSE IF StartsWith(s, pat)
         THEN repl \o ReSub(pat, repl, Drop(s, Len(pat)))
         ELSE <<Head(s)>> \o ReSub(pat, repl, Tail(s))

\* The documented line of edit_text: responses[j] for the run at index j
\* (1-based here); IndexError when j is out of range.
InRange(lines, j) == j >= 1 /\ j <= Len(lines)

\* The line counted from the end of the answer instead of its start.
ResponseFromEnd(lines, j) == lines[Len(lines) - j + 1]

ResponseAt(lines, j) == lines[j]

\* The inner loop of edit_text for one slide: runs j..stop in order, each
\* re.sub applied to the content the previous one left.
RECURSIVE SubstLoop(_, _, _, _, _, _)
SubstLoop(content, texts, lines, j, stop, slide) ==
    IF j > stop THEN [ok |-> TRUE, content |-> content, log |-> <<>>]
    ELSE IF ~InRange(texts, j) \/ ~InRange(lines, j)
         THEN [ok |-> FALSE, content |-> content, log |-> <<>>]
    ELSE LET after == ReSub(texts[j], ResponseAt(lines, j), content)
             rest  == SubstLoop(after, texts, lines, j + 1, stop, slide)
         IN  [ok      |-> rest.ok,
              content |-> rest.content,
              log     |-> <<[slide |-> slide, j |-> j, pat |-> texts[j],
                             repl |-> ResponseAt(lines, j),
                             before |-> content, after |-> after]>>
                          \o rest.log]

\* The shapes of a slide with only its first picture kept.
RECURSIVE ShapesOnePicture(_, _)
ShapesOnePicture(content, seen) ==
    IF content = <<>> THEN <<>>
    ELSE IF Head(content) = TOpen
         THEN LET e == FirstClose(content, 1)
              IN  <<[kind |-> "text", text |-> SubSeq(content, 2, e - 1),
                     pic |-> ""]>> \o ShapesOnePicture(Drop(content, e), seen)
    ELSE IF Head(content) \in PicAtoms /\ ~seen
         THEN <<[kind |-> "picture", text |-> <<>>, pic |-> Head(content)]>>
              \o ShapesOnePicture(Tail(content), TRUE)
    ELSE ShapesOnePicture(Tail(content), seen)

ShapesFirstPicture(content) == ShapesOnePicture(content, FALSE)

\* The shapes python-pptx sees on a slide: one text shape per run, one
\* picture shape per p:pic element, in document order.
RECURSIVE Shapes(_)
Shapes(content) ==
    IF content = <<>> THEN <<>>
    ELSE IF Head(content) = TOpen
         THEN LET e == FirstClose(content, 1)
              IN  <<[kind |-> "text", text |-> SubSeq(content, 2, e - 1),
                     pic |-> ""]>> \o Shapes(Drop(content, e))
    ELSE IF Head(content) \in PicAtoms
         THEN <<[kind |-> "picture", text |-> <<>>, pic |-> Head(content)]>>
              \o Shapes(Tail(content))
    ELSE Shapes(Tail(content))

IsPicture(shape) == shape.kind = "picture"

\* prompt += shape.text + " " for every shape that has text.
RECURSIVE BuildPrompt(_)
BuildPrompt(shapes) ==
    IF shapes = <<>> THEN <<>>
    ELSE IF Head(shapes).kind = "text"
         THEN Head(shapes).text \o <<" ">> \o BuildPrompt(Tail(shapes))
         ELSE BuildPrompt(Tail(shapes))

\* The resolution asked of the image API, chosen from the old width.
OutputSize(size) ==
    IF size[1] <= Small THEN Small
    ELSE IF size[1] <= Medium THEN Medium
    ELSE Large

\* The image the API returns is square, at the resolution asked.
Generated(side) == <<side, side>>

\* The generated image written as it came, without the resize.
ResizeKeep(img, size) == img

\* PIL's Image.resize(size): an image of exactly the given size.
Resize(img, size) == size

\* What the script did to the outside world, in order: the step, whether
\* it succeeded, the slide, and its data (the text sent, the prompt and
\* side of an image request, the picture and size of a saved image).
Ev(step, ok, slide, data, side, pic) ==
    [step |-> step, ok |-> ok, slide |-> slide, data |-> data,
     side |-> side, pic |-> pic]

Log(step, ok) == Ev(step, ok, 0, <<>>, 0, "")

(* ---------------- the run of the script ---------------- *)

Init ==
    /\ pc = "count_slides"
    /\ ppt_file \in Decks
    /\ save_dir \in {Absent, Dir(ppt_file)}
    /\ new_ppt \in {Absent, Dir(ppt_file)}
    /\ num_slides = 0
    /\ xml_text = <<>>
    /\ attrs_per_slide = <<>>
    /\ i = 0
    /\ response = <<>>
    /\ responses = <<>>
    /\ n = 0
    /\ subs = <<>>
    /\ prs = <<>>
    /\ prompt = <<>>
    /\ shape_ix = 0
    /\ media = [p \in PicAtoms |-> ImageSize(p)]
    /\ pngs = [k \in 1..MaxSlides |-> <<>>]
    /\ final = 0
    /\ trace = <<>>

\* An uncaught exception: the interpreter exits.
Raise(step, slide) ==
    /\ pc' = "failed"
    /\ trace' = Append(trace, Ev(step, FALSE, slide, <<>>, 0, ""))

\* num_slides = count_slides(args.ppt_file)
CountSlides ==
    /\ pc = "count_slides"
    /\ num_slides' = Len(ppt_file)
    /\ pc' = "extract"
    /\ trace' = Append(trace, Log("count_slides", TRUE))
    /\ UNCHANGED <<ppt_file, save_dir, new_ppt, xml_text, attrs_per_slide, i,
                   response, responses, n, subs, prs, prompt, shape_ix, media,
                   pngs, final>>

\* subprocess.run(["opc", "extract", ...]): the tool unpacks the deck,
\* or exits with a nonzero status (run() returns, check is not set), or
\* cannot be started (run() raises).  The call of generate_text that
\* follows starts its loop at slide 1.
Extract ==
    /\ pc = "extract"
    /\ \/ /\ save_dir' = Dir(ppt_file)
          /\ pc' = "generate_text"
          /\ trace' = Append(trace, Log("extract", TRUE))
       \/ /\ save_dir' = save_dir
          /\ pc' = "generate_text"
          /\ trace' = Append(trace, Log("extract", FALSE))
       \/ /\ save_dir' = save_dir
          /\ Raise("extract", 0)
    /\ i' = 1
    /\ UNCHANGED <<ppt_file, new_ppt, num_slides, xml_text, attrs_per_slide,
                   response, responses, n, subs, prs, prompt, shape_ix, media,
                   pngs, final>>

\* One turn of the loop of generate_text: read and parse slide i.
GenRead ==
    /\ pc = "generate_text"
    /\ i <= num_slides
    /\ IF ~save_dir.present \/ i > Len(save_dir.slides)
            \/ ~WellFormed(save_dir.slides[i])
       THEN /\ Raise("read_slide", i)
            /\ UNCHANGED <<xml_text, attrs_per_slide, i>>
       ELSE LET slide_text == text_parse(save_dir.slides[i])
            IN  /\ xml_text' = xml_text \o slide_text
                /\ attrs_per_slide' = Append(attrs_per_slide, Len(slide_text))
                /\ i' = i + 1
                /\ pc' = pc
                /\ trace' = Append(trace, Ev("read_slide", TRUE, i, <<>>, 0, ""))
    /\ UNCHANGED <<ppt_file, save_dir, new_ppt, num_slides, response,
                   responses, n, subs, prs, prompt, shape_ix, media, pngs,
                   final>>

\* The end of generate_text: join the runs and call the Edits API, which
\* answers with some text or raises.
GenCall ==
    /\ pc = "generate_text"
    /\ i > num_slides
    /\ IF JoinFails(xml_text)
       THEN /\ Raise("join", 0)
            /\ response' = response
       ELSE \/ \E blob \in Blobs :
                /\ response' = blob
                /\ pc' = "edit_text"
                /\ trace' = Append(trace,
                                   Ev("text_api", TRUE, 0, Join(xml_text), 0, ""))
            \/ /\ Raise("text_api", 0)
               /\ response' = response
    /\ UNCHANGED <<ppt_file, save_dir, new_ppt, num_slides, xml_text,
                   attrs_per_slide, i, responses, n, subs, prs, prompt,
                   shape_ix, media, pngs, final>>

\* The head of edit_text: split the answer into lines and pad it.
EditSplit ==
    /\ pc = "edit_text"
    /\ responses' = Pad(Split(response), Len(xml_text))
    /\ n' = 0
    /\ i' = 1
    /\ pc' = "edit_loop"
    /\ UNCHANGED <<ppt_file, save_dir, new_ppt, num_slides, xml_text,
                   attrs_per_slide, response, subs, prs, prompt, shape_ix,
                   media, pngs, final, trace>>

\* One turn of the loop of edit_text: rewrite the file of slide i with
\* the runs n..n+n_slide-1 (0-based) substituted in order.
EditSlide ==
    /\ pc = "edit_loop"
    /\ i <= Len(attrs_per_slide)
    /\ LET n_slide == attrs_per_slide[i]
           r == SubstLoop(save_dir.slides[i], xml_text, responses,
                          n + 1, n + n_slide, i)
       IN  IF ~r.ok
           THEN /\ Raise("write_slide", i)
                /\ UNCHANGED <<save_dir, n, i, subs>>
           ELSE /\ save_dir' = [save_dir EXCEPT !.slides[i] = r.content]
                /\ subs' = subs \o r.log
                /\ n' = n + n_slide
                /\ i' = i + 1
                /\ pc' = pc
                /\ trace' = Append(trace, Ev("write_slide", TRUE, i, <<>>, 0, ""))
    /\ UNCHANGED <<ppt_file, new_ppt, num_slides, xml_text, attrs_per_slide,
                   response, responses, prs, prompt, shape_ix, media, pngs,
                   final>>

\* edit_text returns.
EditDone ==
    /\ pc = "edit_loop"
    /\ i > Len(attrs_per_slide)
    /\ pc' = "repack"
    /\ UNCHANGED <<ppt_file, save_dir, new_ppt, num_slides, xml_text,
                   attrs_per_slide, i, response, responses, n, subs, prs,
                   prompt, shape_ix, media, pngs, final, trace>>

\* subprocess.run(["opc", "repackage", ...]): the tool packs the edited
\* tree into new_ppt, or exits nonzero leaving new_ppt as it was, or
\* cannot be started.
Repack ==
    /\ pc = "repack"
    /\ \/ /\ new_ppt' = Dir(save_dir.slides)
          /\ pc' = "edit_images"
          /\ trace' = Append(trace, Log("repack", TRUE))
       \/ /\ new_ppt' = new_ppt
          /\ pc' = "edit_images"
          /\ trace' = Append(trace, Log("repack", FALSE))
       \/ /\ new_ppt' = new_ppt
          /\ Raise("repack", 0)
    /\ UNCHANGED <<ppt_file, save_dir, num_slides, xml_text, attrs_per_slide,
                   i, response, responses, n, subs, prs, prompt, shape_ix,
                   media, pngs, final>>

\* prs = pptx.Presentation(new_ppt): raises when the file is not there.
ImgOpen ==
    /\ pc = "edit_images"
    /\ IF ~new_ppt.present
       THEN /\ Raise("open", 0)
            /\ UNCHANGED <<prs, i>>
       ELSE /\ prs' = new_ppt.slides
            /\ i' = 1
            /\ pc' = "img_slide"
            /\ trace' = Append(trace, Log("open", TRUE))
    /\ UNCHANGED <<ppt_file, save_dir, new_ppt, num_slides, xml_text,
                   attrs_per_slide, response, responses, n, subs, prompt,
                   shape_ix, media, pngs, final>>

\* The first inner loop of edit_images: the prompt of slide i.
ImgPrompt ==
    /\ pc = "img_slide"
    /\ i <= Len(prs)
    /\ prompt' = BuildPrompt(Shapes(prs[i]))
    /\ shape_ix' = 1
    /\ pc' = "img_shape"
    /\ UNCHANGED <<ppt_file, save_dir, new_ppt, num_slides, xml_text,
                   attrs_per_slide, i, response, responses, n, subs, prs,
                   media, pngs, final, trace>>

\* One turn of the second inner loop: a shape that is no picture is
\* passed over.
ImgSkip ==
    /\ pc = "img_shape"
    /\ shape_ix <= Len(Shapes(prs[i]))
    /\ ~IsPicture(Shapes(prs[i])[shape_ix])
    /\ shape_ix' = shape_ix + 1
    /\ UNCHANGED <<pc, ppt_file, save_dir, new_ppt, num_slides, xml_text,
                   attrs_per_slide, i, response, responses, n, subs, prs,
                   prompt, media, pngs, final, trace>>

\* One turn of the second inner loop on a picture: ask for an image,
\* resize it to the old image's size, save it as slide<i>.png and put
\* its bytes in the image part.  The request or the download may raise.
\* size is the size of the image the part holds when the shape is reached.
ImgPicture ==
    /\ pc = "img_shape"
    /\ shape_ix <= Len(Shapes(prs[i]))
    /\ IsPicture(Shapes(prs[i])[shape_ix])
    /\ LET shape == Shapes(prs[i])[shape_ix]
           size == media[shape.pic]
           outputsize == OutputSize(size)
           img == Resize(Generated(outputsize), size)
           req == Ev("image_api", TRUE, i, Take(prompt, PromptMax),
                     outputsize, shape.pic)
       IN  \/ /\ trace' = trace \o
                            <<req, Ev("save_png", TRUE, i, img, 0, shape.pic)>>
              /\ pngs' = [pngs EXCEPT ![i] = Append(@, img)]
              /\ media' = [media EXCEPT ![shape.pic] = img]
              /\ shape_ix' = shape_ix + 1
              /\ pc' = pc
           \/ /\ Raise("image_api", i)
              /\ UNCHANGED <<pngs, media, shape_ix>>
    /\ UNCHANGED <<ppt_file, save_dir, new_ppt, num_slides, xml_text,
                   attrs_per_slide, i, response, responses, n, subs, prs,
                   prompt, final>>

\* The shapes of slide i are done: on to the next slide.
ImgNext ==
    /\ pc = "img_shape"
    /\ shape_ix > Len(Shapes(prs[i]))
    /\ i' = i + 1
    /\ pc' = "img_slide"
    /\ UNCHANGED <<ppt_file, save_dir, new_ppt, num_slides, xml_text,
                   attrs_per_slide, response, responses, n, subs, prs,
                   prompt, shape_ix, media, pngs, final, trace>>

\* prs.save(final.pptx) after the loop over the slides.
ImgSave ==
    /\ pc = "img_slide"
    /\ i > Len(prs)
    /\ final' = final + 1
    /\ pc' = "done"
    /\ trace' = Append(trace, Log("save_final", TRUE))
    /\ UNCHANGED <<ppt_file, save_dir, new_ppt, num_slides, xml_text,
                   attrs_per_slide, i, response, responses, n, subs, prs,
                   prompt, shape_ix, media, pngs>>

Next ==
    \/ CountSlides
    \/ Extract
    \/ GenRead
    \/ GenCall
    \/ EditSplit
    \/ EditSlide
    \/ EditDone
    \/ Repack
    \/ ImgOpen
    \/ ImgPrompt
    \/ ImgSkip
    \/ ImgPicture
    \/ ImgNext
    \/ ImgSave

Spec == Init /\ [][Next]_vars

(* ---------------- generate_text and edit_text on their own ---------- *)

\* The state in which __main__ calls generate_text after a successful
\* extract, for a deck without pictures.
InitText ==
    /\ pc = "generate_text"
    /\ ppt_file \in TextDecks
    /\ save_dir = Dir(ppt_file)
    /\ new_ppt = Absent
    /\ num_slides = Len(ppt_file)
    /\ xml_text = <<>>
    /\ attrs_per_slide = <<>>
    /\ i = 1
    /\ response = <<>>
    /\ responses = <<>>
    /\ n = 0
    /\ subs = <<>>
    /\ prs = <<>>
    /\ prompt = <<>>
    /\ shape_ix = 0
    /\ media = [p \in PicAtoms |-> ImageSize(p)]
    /\ pngs = [k \in 1..MaxSlides |-> <<>>]
    /\ final = 0
    /\ trace = <<Log("count_slides", TRUE), Log("extract", TRUE)>>

NextText ==
    \/ GenRead
    \/ GenCall
    \/ EditSplit
    \/ EditSlide
    \/ EditDone

SpecText == InitText /\ [][NextText]_vars

(* ---------------- edit_images on its own ---------------- *)

\* edit_images(save_dir, new_ppt) called on a well-formed document.
InitImages ==
    /\ pc = "edit_images"
    /\ ppt_file \in ImageDecks
    /\ save_dir = Dir(ppt_file)
    /\ new_ppt = Dir(ppt_file)
    /\ num_slides = Len(ppt_file)
    /\ xml_text = <<>>
    /\ attrs_per_slide = <<>>
    /\ i = 1
    /\ response = <<>>
    /\ responses = <<>>
    /\ n = 0
    /\ subs = <<>>
    /\ prs = <<>>
    /\ prompt = <<>>
    /\ shape_ix = 0
    /\ media = [p \in PicAtoms |-> ImageSize(p)]
    /\ pngs = [k \in 1..MaxSlides |-> <<>>]
    /\ final = 0
    /\ trace = <<>>

NextImages ==
    \/ ImgOpen
    \/ ImgPrompt
    \/ ImgSkip
    \/ ImgPicture
    \/ ImgNext
    \/ ImgSave

SpecImages == InitImages /\ [][NextImages]_vars

(* ---------------- vocabulary of the properties ---------------- *)

\* The positions of the opening text tags of a slide file.
OpenAt(content) == {p \in 1..Len(content) : content[p] = TOpen}

RunCount(content) == Cardinality(OpenAt(content))

\* The k-th text run of a slide file, read off the file directly: what
\* stands between the k-th opening tag and the closing tag after it.
RunAt(content, k) ==
    LET o == CHOOSE p \in OpenAt(content) :
                 Cardinality({q \in OpenAt(content) : q < p}) = k - 1
        c == CHOOSE q \in (o + 1)..Len(content) :
                 /\ content[q] = TClose
                 /\ \A r \in (o + 1)..(q - 1) : content[r] # TClose
    IN  SubSeq(content, o + 1, c - 1)

\* A slide file with the text of its runs taken out: all that is not text.
RECURSIVE Skeleton(_, _)
Skeleton(content, inside) ==
    IF content = <<>> THEN <<>>
    ELSE IF Head(content) = TOpen
         THEN <<TOpen>> \o Skeleton(Tail(content), TRUE)
    ELSE IF Head(content) = TClose
         THEN <<TClose>> \o Skeleton(Tail(content), FALSE)
    ELSE IF inside THEN Skeleton(Tail(content), inside)
    ELSE <<Head(content)>> \o Skeleton(Tail(content), inside)

PictureCount(content) ==
    Cardinality({p \in 1..Len(content) : content[p] \in PicAtoms})

RECURSIVE SumTo(_, _)
SumTo(counts, k) == IF k <= 0 THEN 0 ELSE counts[k] + SumTo(counts, k - 1)

\* The number of runs extracted and of lines answered.
K == Len(xml_text)

NLines == Len(Split(response))

ExtractionDone ==
    \/ pc = "generate_text" /\ i > num_slides
    \/ pc \in {"edit_text", "edit_loop", "repack", "edit_images",
               "img_slide", "img_shape", "done"}

EditStarted ==
    pc \in {"edit_loop", "repack", "edit_images", "img_slide", "img_shape",
            "done"}

EditDoneAll ==
    pc \in {"repack", "edit_images", "img_slide", "img_shape", "done"}

LastFailed(step) ==
    /\ pc = "failed"
    /\ trace # <<>>
    /\ trace[Len(trace)].step = step

\* re.sub with count 1: the first match only.
RECURSIVE ReSubFirst(_, _, _)
ReSubFirst(pat, repl, s) ==
    IF s = <<>> THEN <<>>
    ELSE IF StartsWith(s, pat) THEN repl \o Drop(s, Len(pat))
    ELSE <<Head(s)>> \o ReSubFirst(pat, repl, Tail(s))

\* The substitutions pats[k] -> repls[k] applied to content one after
\* the other.
RECURSIVE RefFold(_, _, _)
RefFold(content, pats, repls) ==
    IF pats = <<>> THEN content
    ELSE RefFold(ReSub(Head(pats), Head(repls), content),
                 Tail(pats), Tail(repls))

\* The file of slide s of the original deck edited with the given lines.
RefEdit(s, lines) ==
    LET off == SumTo(attrs_per_slide, s - 1)
    IN  RefFold(ppt_file[s],
                SubSeq(xml_text, off + 1, off + attrs_per_slide[s]),
                SubSeq(lines, off + 1, off + attrs_per_slide[s]))

EventsOf(step) == {k \in 1..Len(trace) : trace[k].step = step}

(* ---------------- properties ---------------- *)

\* C1: once generate_text has read every slide, xml_text holds exactly
\* the K runs of the deck, those of slide 1 in document order, then those
\* of slide 2, and so on, and attrs_per_slide has one entry per slide, the
\* number of runs of that slide, so that the entries sum to K.
C1_Extraction ==
    ExtractionDone =>
        /\ num_slides = Len(ppt_file)
        /\ Len(attrs_per_slide) = num_slides
        /\ \A s \in 1..num_slides : attrs_per_slide[s] = RunCount(ppt_file[s])
        /\ K = SumTo(attrs_per_slide, num_slides)
        /\ \A s \in 1..num_slides : \A k \in 1..attrs_per_slide[s] :
              xml_text[SumTo(attrs_per_slide, s - 1) + k]
                  = RunAt(ppt_file[s], k)

C1_Witness ==
    /\ pc = "edit_text"
    /\ num_slides = 2
    /\ attrs_per_slide = <<1, 1>>
    /\ xml_text = <<<<"a">>, <<"b">>>>

\* C2: when the answer has fewer lines than the K runs (the empty answer
\* included), edit_text does not fail, and after it every run whose index
\* is at or beyond the answer's line count has been replaced with the
\* empty string: its text node is empty.
C2_ShortBlobPadded ==
    NLines < K =>
        /\ ~LastFailed("write_slide")
        /\ EditDoneAll =>
              \A s \in 1..num_slides : \A k \in 1..attrs_per_slide[s] :
                  SumTo(attrs_per_slide, s - 1) + k > NLines =>
                      /\ RunCount(save_dir.slides[s]) = attrs_per_slide[s]
                      /\ RunAt(save_dir.slides[s], k) = <<>>

\* C3: when the answer has more lines than the K runs, edit_text uses
\* its first K lines only: the run at index j is substituted with line j,
\* no later line is used, and the slide files end as they would with the
\* answer cut to its first K lines.
C3_ExcessIgnored ==
    NLines > K =>
        /\ \A k \in 1..Len(subs) :
              /\ subs[k].j <= K
              /\ subs[k].repl = Split(response)[subs[k].j]
        /\ EditDoneAll =>
              /\ Len(subs) = K
              /\ \A s \in 1..num_slides :
                    save_dir.slides[s] = RefEdit(s, Take(Split(response), K))

C3_Witness ==
    /\ pc = "repack"
    /\ K = 1
    /\ Split(response) = <<<<>>, <<"a">>>>
    /\ \E s \in 1..num_slides : save_dir.slides[s] # ppt_file[s]

\* C4: after edit_text every run of every slide holds exactly the line
\* at its own global index, whatever the other runs of the slide are.
C4_EachRunItsLine ==
    EditDoneAll =>
        \A s \in 1..num_slides :
            /\ RunCount(save_dir.slides[s]) = attrs_per_slide[s]
            /\ \A k \in 1..attrs_per_slide[s] :
                  RunAt(save_dir.slides[s], k)
                      = responses[SumTo(attrs_per_slide, s - 1) + k]

\* C5: when the answer has exactly one line per run, after edit_text
\* every text node holds the line at its index and all that is not text
\* in a slide file is as it was.
C5_OnlyTextChanges ==
    (EditDoneAll /\ NLines = K) =>
        \A s \in 1..num_slides :
            /\ Skeleton(save_dir.slides[s], FALSE)
                   = Skeleton(ppt_file[s], FALSE)
            /\ \A k \in 1..attrs_per_slide[s] :
                  RunAt(save_dir.slides[s], k)
                      = responses[SumTo(attrs_per_slide, s - 1) + k]

\* C6: every image edit_images saves and binds to a picture has the
\* pixel width and height of the picture's original image, whichever of
\* the three resolutions the generated image came in.
C6_ResizeToOriginal ==
    /\ \A k \in EventsOf("save_png") :
          trace[k].data = ImageSize(trace[k].pic)
    /\ \A k \in EventsOf("image_api") :
          trace[k].ok => trace[k].side \in {Small, Medium, Large}
    /\ \A p \in PicAtoms : media[p] = ImageSize(p)

C6_Witness ==
    /\ pc = "done"
    /\ {trace[k].pic : k \in EventsOf("save_png")} = {"pic1", "pic3"}
    /\ {trace[k].side : k \in {e \in EventsOf("image_api") : trace[e].ok}}
           = {Small, Large}
    /\ media["pic3"] = <<800, 600>>

\* C7: a step that fails is the last thing the run does: nothing is
\* done after it.
C7_FailureStops ==
    \A k \in 1..Len(trace) : ~trace[k].ok => k = Len(trace)

\* C8: each substitution of edit_text replaces the first occurrence of
\* the run's string only.
C8_FirstMatchOnly ==
    \A k \in 1..Len(subs) :
        subs[k].after = ReSubFirst(subs[k].pat, subs[k].repl, subs[k].before)

Rank(step) ==
    CASE step = "count_slides" -> 1
      [] step = "extract"      -> 2
      [] step = "read_slide"   -> 3
      [] step = "join"         -> 4
      [] step = "text_api"     -> 4
      [] step = "write_slide"  -> 5
      [] step = "repack"       -> 6
      [] step = "open"         -> 7
      [] step = "image_api"    -> 8
      [] step = "save_png"     -> 8
      [] OTHER                 -> 9

\* C9: the steps come in one order, none twice: unpack, extraction, one
\* text API call, substitution, repack, image editing.  No slide file is
\* modified before the text API has answered, the repack comes after
\* every slide file was rewritten, and every image request comes after
\* the repack with a prompt built from the edited text of its slide.
C9_LinearOrder ==
    /\ \A k \in 1..(Len(trace) - 1) :
          Rank(trace[k].step) <= Rank(trace[k + 1].step)
    /\ \A step \in {"count_slides", "extract", "text_api", "repack", "open"} :
          Cardinality(EventsOf(step)) <= 1
    /\ (EventsOf("text_api") = {} \/ LastFailed("text_api")) =>
          save_dir \in {Absent, Dir(ppt_file)}
    /\ \A k \in EventsOf("repack") :
          {trace[e].slide : e \in {w \in EventsOf("write_slide") : w < k}}
              = 1..num_slides
    /\ \A k \in EventsOf("image_api") :
          /\ \E r \in EventsOf("repack") : r < k
          /\ trace[k].ok =>
                trace[k].data
                    = Take(BuildPrompt(Shapes(save_dir.slides[trace[k].slide])),
                           PromptMax)

\* C10 as stated: a run of edit_images to its end writes slide<i>.png
\* once for each slide i of the document and the final document once.
C10_OneFilePerSlide ==
    pc = "done" =>
        /\ final = 1
        /\ \A s \in 1..Len(prs) : Len(pngs[s]) = 1

\* C10 as amended: edit_images writes slide<i>.png once for each picture
\* shape of slide i (not at all for a slide without pictures, again for
\* each further picture), and writes the final document exactly once,
\* after every picture of every slide was processed.
C10_OneFilePerPicture ==
    /\ final <= 1
    /\ final = 1 <=> pc = "done"
    /\ pc = "done" =>
          /\ \A s \in 1..Len(prs) : Len(pngs[s]) = PictureCount(prs[s])
          /\ \A s \in 1..Len(prs) :
                Cardinality({k \in EventsOf("save_png") : trace[k].slide = s})
                    = PictureCount(prs[s])
          /\ EventsOf("save_final") = {Len(trace)}

C10_Witness ==
    /\ pc = "done"
    /\ Len(prs) = 2
    /\ Len(pngs[1]) = 2
    /\ Len(pngs[2]) = 0
    /\ final = 1

====
